---------------------------- MODULE Spec2Model ----------------------------
(***************************************************************************)
(* Model of glance_store/_drivers/cinder.py: the Cinder StoreLocation      *)
(* (URI parsing and rendering) and the Cinder Store adapter (construction, *)
(* context check, per-request client factory, get_size and its exception   *)
(* translation).                                                           *)
(*                                                                         *)
(* Strings whose characters matter (URIs, the catalog-info option) are     *)
(* sequences of one-character strings.  Byte counts exceed 32 bits, so     *)
(* integers produced by get_size are little-endian sequences of decimal    *)
(* digits (Python integers are unbounded).                                 *)
(***************************************************************************)
EXTENDS Integers, Sequences, FiniteSets, TLC

VARIABLES
    \* ---- StoreLocation ----
    ppc,         \* position of the location scenario: "start", "parsed", "built",
                 \* "rendered", "reparsed" ("unused" where no location is involved)
    uri,         \* the string handed to parse_uri
    sloc,        \* the StoreLocation object: its scheme and volume_id attributes
    parsed,      \* what parse_uri(uri) did: outcome, reason, log, whether is_uuid_like ran
    rendered,    \* the string get_uri returned
    sloc2,       \* a second StoreLocation, filled by parsing `rendered`
    parsed2,     \* what that second parse_uri did
    \* ---- Store ----
    conf,        \* conf.glance_store: the configuration options
    store,       \* the Store instance's attributes (attribute name -> value)
    init_result, \* what Store.__init__ did: "none", "ok" or the exception raised
    volumes,     \* the remote volume service: volume id -> size in GB, or Absent
    calls,       \* one record per get_size invocation (its frame)
    next_id      \* identity of the next object the client constructor allocates

vars == <<ppc, uri, sloc, parsed, rendered, sloc2, parsed2,
          conf, store, init_result, volumes, calls, next_id>>

locvars   == <<ppc, uri, sloc, parsed, rendered, sloc2, parsed2>>
storevars == <<conf, store, init_result, volumes, calls, next_id>>

(***************************************************************************)
(* Bounds of the model.                                                    *)
(***************************************************************************)
NumCalls   == 2   \* concurrent get_size invocations
MaxSizeGB  == 5   \* largest volume size the remote service reports
MaxInfoLen == 5   \* longest enumerated cinder_catalog_info string

None == "None"

(***************************************************************************)
(* StoreLocation                                                           *)
(***************************************************************************)
\* 'cinder://' (lines 65, 68)
CinderPrefix == <<"c", "i", "n", "d", "e", "r", ":", "/", "/">>

\* str.startswith
StartsWith(s, p) ==
    /\ Len(s) >= Len(p)
    /\ SubSeq(s, 1, Len(p)) = p

\* s[n:] for n >= 0
SliceFrom(s, n) == SubSeq(s, n + 1, Len(s))

HexChars == {"0", "1", "2", "3", "4", "5", "6", "7", "8", "9",
             "a", "b", "c", "d", "e", "f",
             "A", "B", "C", "D", "E", "F"}

HyphenAt == {9, 14, 19, 24}

\* utils.is_uuid_like: the 8-4-4-4-12 shape of hexadecimal groups separated
\* by hyphens, letters in either case.
is_uuid_like(val) ==
    /\ Len(val) = 36
    /\ \A i \in 1..36 :
          IF i \in HyphenAt THEN val[i] = "-" ELSE val[i] \in HexChars

ReasonPrefix == "URI must start with 'cinder://'"
ReasonVolume == "URI contains invalid volume ID"

\* A StoreLocation before process_specs/parse_uri assigned anything.
FreshLocation == [scheme |-> <<>>, volume_id |-> <<>>, assigned |-> FALSE]

NotParsed == [outcome |-> "none", reason |-> "", log |-> <<>>, uuid_checked |-> FALSE]

\* parse_uri without the volume id validation of lines 76-79.
parse_uri_NoUuidCheck(self, u) ==
    IF ~StartsWith(u, CinderPrefix)
    THEN [loc |-> self,
          res |-> [outcome |-> "BadStoreUri", reason |-> ReasonPrefix,
                   log |-> <<"info">>, uuid_checked |-> FALSE]]
    ELSE [loc |-> [scheme |-> <<"c", "i", "n", "d", "e", "r">>,
                   volume_id |-> SliceFrom(u, 9),
                   assigned |-> TRUE],
          res |-> [outcome |-> "ok", reason |-> "",
                   log |-> <<>>, uuid_checked |-> FALSE]]

\* StoreLocation.parse_uri(self, uri): the object's attributes afterwards and
\* what the call did.  The attributes are assigned before the volume id is
\* validated, so they are set even when the second check raises.
parse_uri(self, u) ==
    IF ~StartsWith(u, CinderPrefix)
    THEN [loc |-> self,
          res |-> [outcome |-> "BadStoreUri", reason |-> ReasonPrefix,
                   log |-> <<"info">>, uuid_checked |-> FALSE]]
    ELSE LET assigned == [scheme |-> <<"c", "i", "n", "d", "e", "r">>,
                          volume_id |-> SliceFrom(u, 9),
                          assigned |-> TRUE]
         IN IF ~is_uuid_like(assigned.volume_id)
            THEN [loc |-> assigned,
                  res |-> [outcome |-> "BadStoreUri", reason |-> ReasonVolume,
                           log |-> <<"info">>, uuid_checked |-> TRUE]]
            ELSE [loc |-> assigned,
                  res |-> [outcome |-> "ok", reason |-> "",
                           log |-> <<>>, uuid_checked |-> TRUE]]

\* get_uri with the format string "cinder:/%s".
get_uri_OneSlash(self) == SubSeq(CinderPrefix, 1, 8) \o self.volume_id

\* StoreLocation.get_uri(self): "cinder://%s" % self.volume_id
get_uri(self) == CinderPrefix \o self.volume_id


\* StoreLocation.process_specs(self): the construct path, from a mapping.
\* No validation of the volume id happens here.
process_specs(specs) ==
    [scheme    |-> IF "scheme" \in DOMAIN specs THEN specs["scheme"]
                   ELSE <<"c", "i", "n", "d", "e", "r">>,
     volume_id |-> specs["volume_id"],
     assigned  |-> TRUE]

(***************************************************************************)
(* Strings the location scenario draws from: five prefixes, and tails      *)
(* assembled from well-formed and malformed groups.                        *)
(***************************************************************************)
Prefixes == {CinderPrefix,
             <<>>,
             <<"c", "i", "n", "d", "e", "r", ":", "/">>,
             <<"C", "i", "n", "d", "e", "r", ":", "/", "/">>,
             <<"h", "t", "t", "p", ":", "/", "/">>}

Group1 == {<<"2", "a", "a", "1", "d", "1", "c", "2">>,
           <<"2", "A", "A", "1", "D", "1", "C", "2">>,
           <<"2", "a", "a", "1", "d", "1", "c", "g">>,
           <<"2", "a", "a", "1", "d", "1", "c">>}
Group2 == {<<"5", "f", "0", "c">>, <<"5", "F", "0", "C">>}
Group3 == <<"4", "e", "8", "f">>
Group4 == <<"8", "e", "0", "d">>
Group5 == {<<"1", "1", "1", "1", "1", "1", "1", "1", "1", "1", "1", "1">>,
           <<"1", "1", "1", "1", "1", "1", "1", "1", "1", "1", "1">>,
           <<"1", "1", "1", "1", "1", "1", "1", "1", "1", "1", "1", "z">>}
Separators == {<<"-">>, <<"_">>, <<>>}

Tails ==
    {g1 \o s \o g2 \o s \o Group3 \o s \o Group4 \o s \o g5 :
        g1 \in Group1, s \in Separators, g2 \in Group2, g5 \in Group5}
    \cup {<<>>, CinderPrefix}

\* The volume id of the scenario "cinder://2aa1d1c2-5f0c-4e8f-8e0d-111111111111"
ScenarioVolume == <<"2", "a", "a", "1", "d", "1", "c", "2", "-", "5", "f", "0", "c", "-", "4", "e", "8", "f", "-", "8", "e", "0", "d", "-", "1", "1", "1", "1", "1", "1", "1", "1", "1", "1", "1", "1">>

Uris == {p \o t : p \in Prefixes, t \in Tails}

SpecMappings ==
    {[volume_id |-> t] : t \in Tails}
    \cup {[scheme |-> <<"c", "i", "n", "d", "e", "r">>, volume_id |-> t] : t \in Tails}

\* StoreLocation(uri=...): parse path.
ParseUri ==
    /\ ppc = "start"
    /\ LET r == parse_uri(sloc, uri)
       IN /\ sloc' = r.loc
          /\ parsed' = r.res
    /\ ppc' = "parsed"
    /\ UNCHANGED <<uri, rendered, sloc2, parsed2>>
    /\ UNCHANGED storevars

\* StoreLocation(specs=...): construct path.
ProcessSpecs ==
    /\ ppc = "start"
    /\ \E specs \in SpecMappings : sloc' = process_specs(specs)
    /\ ppc' = "built"
    /\ UNCHANGED <<uri, parsed, rendered, sloc2, parsed2>>
    /\ UNCHANGED storevars

\* get_uri on a location that exists (parse succeeded, or built from specs).
GetUri ==
    /\ \/ ppc = "parsed" /\ parsed.outcome = "ok"
       \/ ppc = "built"
    /\ rendered' = get_uri(sloc)
    /\ ppc' = "rendered"
    /\ UNCHANGED <<uri, sloc, parsed, sloc2, parsed2>>
    /\ UNCHANGED storevars

\* The rendered string is parsed into a second location object.
Reparse ==
    /\ ppc = "rendered"
    /\ LET r == parse_uri(FreshLocation, rendered)
       IN /\ sloc2' = r.loc
          /\ parsed2' = r.res
    /\ ppc' = "reparsed"
    /\ UNCHANGED <<uri, sloc, parsed, rendered>>
    /\ UNCHANGED storevars

(***************************************************************************)
(* Unbounded non-negative integers: little-endian decimal digits, no       *)
(* high-order zeros (zero is <<0>>).                                       *)
(***************************************************************************)
RECURSIVE BigOf(_)
BigOf(n) == IF n < 10 THEN <<n>> ELSE <<n % 10>> \o BigOf(n \div 10)

RECURSIVE BigNorm(_)
BigNorm(a) ==
    IF Len(a) > 1 /\ a[Len(a)] = 0 THEN BigNorm(SubSeq(a, 1, Len(a) - 1)) ELSE a

RECURSIVE BigAddC(_, _, _)
BigAddC(a, b, carry) ==
    IF a = <<>> /\ b = <<>>
    THEN IF carry = 0 THEN <<>> ELSE <<carry>>
    ELSE LET x == IF a = <<>> THEN 0 ELSE Head(a)
             y == IF b = <<>> THEN 0 ELSE Head(b)
             t == x + y + carry
         IN <<t % 10>> \o BigAddC(IF a = <<>> THEN <<>> ELSE Tail(a),
                                  IF b = <<>> THEN <<>> ELSE Tail(b),
                                  t \div 10)

BigAdd(a, b) == BigNorm(BigAddC(a, b, 0))

RECURSIVE BigMulDigit(_, _, _)
BigMulDigit(a, d, carry) ==
    IF a = <<>>
    THEN IF carry = 0 THEN <<>> ELSE <<carry>>
    ELSE LET t == Head(a) * d + carry
         IN <<t % 10>> \o BigMulDigit(Tail(a), d, t \div 10)

RECURSIVE BigMul(_, _)
BigMul(a, b) ==
    IF b = <<>>
    THEN <<0>>
    ELSE BigAdd(BigMulDigit(a, Head(b), 0), <<0>> \o BigMul(a, Tail(b)))

RECURSIVE BigPow(_, _)
BigPow(a, n) == IF n = 0 THEN <<1>> ELSE BigMul(a, BigPow(a, n - 1))

(***************************************************************************)
(* Configuration (_CINDER_OPTS)                                            *)
(***************************************************************************)
\* default of cinder_catalog_info: 'volume:cinder:publicURL'
DefaultCatalogInfo == <<"v", "o", "l", "u", "m", "e", ":", "c", "i", "n", "d", "e", "r", ":", "p", "u", "b", "l", "i", "c", "U", "R", "L">>

\* default of cinder_http_retries
DefaultHttpRetries == 3

\* cinder_endpoint_template is None, or a string.  A string is a sequence of
\* pieces: literal text, or a %(key)s conversion.
Lit(text) == [isKey |-> FALSE, text |-> text]
Key(name) == [isKey |-> TRUE, text |-> name]

NoTemplate    == [is_none |-> TRUE, pieces |-> <<>>]
EmptyTemplate == [is_none |-> FALSE, pieces |-> <<>>]
\* the example of the option's help text: http://localhost:8776/v1/%(project_id)s
ProjectTemplate == [is_none |-> FALSE,
                    pieces |-> <<Lit("http://localhost:8776/v1/"), Key("project_id")>>]
\* a template naming a key the context's dictionary lacks
TenantTemplate == [is_none |-> FALSE,
                   pieces |-> <<Lit("http://localhost:8776/v1/"), Key("tenant")>>]

Templates == {NoTemplate, EmptyTemplate, ProjectTemplate, TenantTemplate}
Regions   == {None, "RegionOne"}

\* Python truthiness of the option's value: None and '' are false.
Truthy(template) == ~template.is_none /\ template.pieces # <<>>

\* template % mapping: each %(key)s is replaced by mapping[key]; a key the
\* mapping lacks raises KeyError.
RECURSIVE Interpolate(_, _)
Interpolate(pieces, mapping) ==
    IF pieces = <<>>
    THEN [ok |-> TRUE, value |-> <<>>]
    ELSE LET p    == Head(pieces)
             rest == Interpolate(Tail(pieces), mapping)
         IN IF p.isKey /\ p.text \notin DOMAIN mapping
            THEN [ok |-> FALSE, value |-> <<>>]
            ELSE IF ~rest.ok
                 THEN rest
                 ELSE [ok |-> TRUE,
                       value |-> <<IF p.isKey THEN mapping[p.text] ELSE p.text>>
                                 \o rest.value]

MakeConf(info, template, region) ==
    [cinder_catalog_info      |-> info,
     cinder_endpoint_template |-> template,
     os_region_name           |-> region,
     cinder_http_retries      |-> DefaultHttpRetries]

(***************************************************************************)
(* Store.__init__                                                          *)
(***************************************************************************)
\* str.split(':'): the fields between the separators, empty fields kept.
RECURSIVE Split(_)
Split(s) ==
    IF s = <<>>
    THEN << <<>> >>
    ELSE LET rest == Split(Tail(s))
         IN IF Head(s) = ":"
            THEN << <<>> >> \o rest
            ELSE << <<Head(s)>> \o Head(rest) >> \o Tail(rest)

\* the object session.Session.load_from_conf_options returns
TheSession == "session"

NoStore == [a \in {} |-> None]

\* Store.__init__(self, conf): the result and the instance's attributes.
\* Unpacking a list of the wrong length into three targets raises ValueError
\* before any target is assigned, and no instance is returned.
StoreInit(cf) ==
    LET info == Split(cf.cinder_catalog_info)
    IN IF Len(info) # 3
       THEN [result |-> "ValueError", store |-> NoStore]
       ELSE [result |-> "ok",
             store  |-> [conf          |-> cf,
                         session       |-> TheSession,
                         service_type  |-> info[1],
                         service_name  |-> info[2],
                         endpoint_type |-> info[3]]]

\* Store.get_schemes
get_schemes == <<"cinder">>

(***************************************************************************)
(* Request contexts and the remote volume service                          *)
(***************************************************************************)
Contexts  == {None, "ctxA", "ctxB"}
VolumeIds == {"V1", "V2"}

\* context.to_dict()
to_dict(context) ==
    IF context = "ctxA"
    THEN [project_id |-> "projectA", user |-> "userA"]
    ELSE [project_id |-> "projectB", user |-> "userB"]

\* context.get_auth_plugin()
get_auth_plugin(context) ==
    IF context = "ctxA" THEN "pluginA" ELSE "pluginB"

\* A volume of the remote service: present with a size in GB, or absent.
VolumeStates ==
    {[exists |-> TRUE, size |-> n] : n \in 0..MaxSizeGB}
    \cup {[exists |-> FALSE, size |-> 0]}

\* What can go wrong with one remote request apart from the volume missing:
\* the identity service finds no endpoint, or the transport fails.
Faults == {"none", "ks_exceptions.EndpointNotFound", "ks_exceptions.ConnectionRefused"}

(***************************************************************************)
(* Exceptions                                                              *)
(***************************************************************************)
\* The classes an exception is an instance of (its class and its bases).
Bases(exc) ==
    CASE exc = "cinder_exception.NotFound" ->
            {"cinder_exception.NotFound", "cinder_exception.ClientException", "Exception"}
      [] exc = "ks_exceptions.EndpointNotFound" ->
            {"ks_exceptions.EndpointNotFound", "ks_exceptions.CatalogException",
             "ks_exceptions.ClientException", "Exception"}
      [] exc = "ks_exceptions.ConnectionRefused" ->
            {"ks_exceptions.ConnectionRefused", "ks_exceptions.ClientException",
             "Exception"}
      [] exc = "exceptions.BadStoreConfiguration" ->
            {"exceptions.BadStoreConfiguration", "exceptions.GlanceStoreException",
             "Exception"}
      [] exc = "KeyError" -> {"KeyError", "LookupError", "Exception"}
      [] OTHER -> {exc, "Exception"}

IsInstance(exc, cls) == cls \in Bases(exc)

Pending == [kind |-> "pending", exc |-> "", value |-> <<0>>, detail |-> ""]
Return(v) == [kind |-> "return", exc |-> "", value |-> v, detail |-> ""]
Raise(exc, detail) == [kind |-> "raise", exc |-> exc, value |-> <<0>>, detail |-> detail]

\* Store._check_context(self, context): the exception it raises, or "none".
check_context(context) ==
    IF context = None THEN "exceptions.BadStoreConfiguration" ELSE "none"

\* The except clauses with the last one re-raising instead of returning 0.
HandleException_Reraise(self, exc, volume_id) ==
    IF IsInstance(exc, "cinder_exception.NotFound")
    THEN IF "volume_id" \in DOMAIN self
         THEN [outcome |-> Raise("exceptions.NotFound", self["volume_id"]),
               log |-> <<"error">>]
         ELSE [outcome |-> Raise("AttributeError", "volume_id"), log |-> <<>>]
    ELSE IF IsInstance(exc, "ks_exceptions.EndpointNotFound")
    THEN [outcome |-> Raise("exceptions.BadStoreConfiguration",
                            "Cinder endpoint could not be determined"),
          log |-> <<>>]
    ELSE [outcome |-> Raise(exc, ""), log |-> <<"exception">>]

\* The except clauses of get_size (lines 144-156), tried in order, for an
\* exception raised in the try block: how the call ends and what it logs.
\* The first clause formats its message with self.volume_id, an attribute
\* lookup on the Store; an exception raised inside a clause leaves get_size.
HandleException(self, exc, volume_id) ==
    IF IsInstance(exc, "cinder_exception.NotFound")
    THEN IF "volume_id" \in DOMAIN self
         THEN [outcome |-> Raise("exceptions.NotFound", self["volume_id"]),
               log |-> <<"error">>]
         ELSE [outcome |-> Raise("AttributeError", "volume_id"), log |-> <<>>]
    ELSE IF IsInstance(exc, "ks_exceptions.EndpointNotFound")
    THEN [outcome |-> Raise("exceptions.BadStoreConfiguration",
                            "Cinder endpoint could not be determined"),
          log |-> <<>>]
    ELSE IF IsInstance(exc, "Exception")
    THEN [outcome |-> Return(<<0>>), log |-> <<"exception">>]
    ELSE [outcome |-> Raise(exc, ""), log |-> <<>>]

\* The conversion with 1024 ** 2 as the factor.
SizeInBytes_Mebi(size) == BigMul(BigOf(size), BigPow(BigOf(1024), 2))

\* line 143: volume.size * (1024 ** 3)
SizeInBytes(size) == BigMul(BigOf(size), BigPow(BigOf(1024), 3))

(***************************************************************************)
(* Store._get_cinderclient                                                 *)
(***************************************************************************)
NoOverride == [ok |-> TRUE, value |-> <<>>]
NoClient   == [id |-> 0, kwargs |-> [a \in {} |-> None]]

\* lines 114-116: the local endpoint_override.  With a falsy option the local
\* keeps the option's value; it is modelled as the empty endpoint.
EndpointOverride(self, context) ==
    IF Truthy(self.conf.cinder_endpoint_template)
    THEN Interpolate(self.conf.cinder_endpoint_template.pieces, to_dict(context))
    ELSE NoOverride

\* A client factory handing out one object kept for the whole Store.
NewClient_Cached(self, context, id) ==
    [id     |-> 1,
     kwargs |-> [session     |-> self.session,
                 auth        |-> get_auth_plugin(context),
                 region_name |-> self.conf.os_region_name,
                 retries     |-> self.conf.cinder_http_retries]]

\* lines 118-124: the client object built, with the keyword arguments the
\* constructor is given.
NewClient(self, context, id) ==
    [id     |-> id,
     kwargs |-> [session     |-> self.session,
                 auth        |-> get_auth_plugin(context),
                 region_name |-> self.conf.os_region_name,
                 retries     |-> self.conf.cinder_http_retries]]

(***************************************************************************)
(* Store.get_size, one frame per invocation                                *)
(***************************************************************************)
IdleFrame ==
    [pc |-> "idle", context |-> None, volume_id |-> "V1",
     endpoint_override |-> NoOverride, client |-> NoClient,
     volume |-> [exists |-> FALSE, size |-> 0],
     raised |-> "none", outcome |-> Pending, log |-> <<>>]

\* The frame of a call that left the try block with exception exc.
Failed(frame, self, exc) ==
    LET h == HandleException(self, exc, frame.volume_id)
    IN [frame EXCEPT !.pc = "done", !.raised = exc,
                     !.outcome = h.outcome, !.log = h.log]

\* get_size(location, context) is entered; line 137 reads the location.
Invoke(c) ==
    /\ init_result = "ok"
    /\ calls[c].pc = "idle"
    /\ \E context \in Contexts, v \in VolumeIds :
          calls' = [calls EXCEPT ![c] = [@ EXCEPT !.pc = "check",
                                                  !.context = context,
                                                  !.volume_id = v]]
    /\ UNCHANGED <<conf, store, init_result, volumes, next_id>>
    /\ UNCHANGED locvars

\* line 140: self._check_context(context)
CheckContext(c) ==
    /\ calls[c].pc = "check"
    /\ LET exc == check_context(calls[c].context)
       IN calls' = [calls EXCEPT ![c] =
                       IF exc = "none"
                       THEN [@ EXCEPT !.pc = "build"]
                       ELSE Failed(@, store, exc)]
    /\ UNCHANGED <<conf, store, init_result, volumes, next_id>>
    /\ UNCHANGED locvars

\* line 141, first half: self._get_cinderclient(context)
GetCinderClient(c) ==
    /\ calls[c].pc = "build"
    /\ LET override == EndpointOverride(store, calls[c].context)
       IN IF ~override.ok
          THEN /\ calls' = [calls EXCEPT ![c] = Failed(@, store, "KeyError")]
               /\ UNCHANGED next_id
          ELSE /\ calls' = [calls EXCEPT ![c] =
                              [@ EXCEPT !.pc = "request",
                                        !.endpoint_override = override,
                                        !.client = NewClient(store, calls[c].context,
                                                             next_id)]]
               /\ next_id' = next_id + 1
    /\ UNCHANGED <<conf, store, init_result, volumes>>
    /\ UNCHANGED locvars

\* line 141, second half, to the end: .volumes.get(loc.volume_id) through the
\* client just built, then the conversion or the except clauses.
VolumesGet(c) ==
    /\ calls[c].pc = "request"
    /\ \E fault \in Faults :
          LET v == volumes[calls[c].volume_id]
          IN calls' = [calls EXCEPT ![c] =
                IF fault # "none"
                THEN Failed(@, store, fault)
                ELSE IF ~v.exists
                THEN Failed(@, store, "cinder_exception.NotFound")
                ELSE [@ EXCEPT !.pc = "done", !.volume = v,
                               !.outcome = Return(SizeInBytes(v.size))]]
    /\ UNCHANGED <<conf, store, init_result, volumes, next_id>>
    /\ UNCHANGED locvars

\* Store(conf)
Construct ==
    /\ init_result = "none"
    /\ LET r == StoreInit(conf)
       IN /\ init_result' = r.result
          /\ store' = r.store
    /\ UNCHANGED <<conf, volumes, calls, next_id>>
    /\ UNCHANGED locvars

(***************************************************************************)
(* Specifications                                                          *)
(***************************************************************************)
LocIdle ==
    /\ ppc = "unused"
    /\ uri = <<>>
    /\ sloc = FreshLocation
    /\ parsed = NotParsed
    /\ rendered = <<>>
    /\ sloc2 = FreshLocation
    /\ parsed2 = NotParsed

NoVolumes == [v \in VolumeIds |-> [exists |-> FALSE, size |-> 0]]

\* The location scenario: a string is parsed, or a location is built from a
\* mapping; the location is rendered; the rendering is parsed again.
InitLoc ==
    /\ ppc = "start"
    /\ uri \in Uris
    /\ sloc = FreshLocation
    /\ parsed = NotParsed
    /\ rendered = <<>>
    /\ sloc2 = FreshLocation
    /\ parsed2 = NotParsed
    /\ conf = MakeConf(DefaultCatalogInfo, NoTemplate, None)
    /\ store = NoStore
    /\ init_result = "none"
    /\ volumes = NoVolumes
    /\ calls = [c \in {1} |-> IdleFrame]
    /\ next_id = 1

NextLoc == ParseUri \/ ProcessSpecs \/ GetUri \/ Reparse

SpecLoc == InitLoc /\ [][NextLoc]_vars

\* Construction: every catalog-info string over a small alphabet up to
\* MaxInfoLen characters, and the default.
InfoChars == {"v", "c", ":"}

CatalogInfos ==
    UNION {[1..n -> InfoChars] : n \in 0..MaxInfoLen} \cup {DefaultCatalogInfo}

InitConstruct ==
    /\ LocIdle
    /\ \E info \in CatalogInfos, t \in Templates, r \in Regions :
          conf = MakeConf(info, t, r)
    /\ store = NoStore
    /\ init_result = "none"
    /\ volumes = NoVolumes
    /\ calls = [c \in {1} |-> IdleFrame]
    /\ next_id = 1

NextConstruct == Construct

SpecInit == InitConstruct /\ [][NextConstruct]_vars

\* One get_size call on a constructed Store, for every template, region and
\* state of the remote volumes.
Init ==
    /\ LocIdle
    /\ \E t \in Templates, r \in Regions :
          conf = MakeConf(DefaultCatalogInfo, t, r)
    /\ store = StoreInit(conf).store
    /\ init_result = StoreInit(conf).result
    /\ volumes \in [VolumeIds -> VolumeStates]
    /\ calls = [c \in {1} |-> IdleFrame]
    /\ next_id = 1

Next ==
    \/ \E c \in DOMAIN calls : Invoke(c)
    \/ \E c \in DOMAIN calls : CheckContext(c)
    \/ \E c \in DOMAIN calls : GetCinderClient(c)
    \/ \E c \in DOMAIN calls : VolumesGet(c)

Spec == Init /\ [][Next]_vars

\* NumCalls get_size calls interleaved on one Store.
InitConc ==
    /\ LocIdle
    /\ \E t \in Templates :
          conf = MakeConf(DefaultCatalogInfo, t, "RegionOne")
    /\ store = StoreInit(conf).store
    /\ init_result = StoreInit(conf).result
    /\ volumes = [v \in VolumeIds |->
                    IF v = "V1" THEN [exists |-> TRUE, size |-> 1]
                    ELSE [exists |-> FALSE, size |-> 0]]
    /\ calls = [c \in 1..NumCalls |-> IdleFrame]
    /\ next_id = 1

SpecConc == InitConc /\ [][Next]_vars

(***************************************************************************)
(* Properties                                                              *)
(***************************************************************************)
Done(c) == calls[c].pc = "done"

\* C1: get_size with a None context fails with BadStoreConfiguration, before
\* any client is built or any remote request is made.
C1_NullContextRaises ==
    \A c \in DOMAIN calls :
        (Done(c) /\ calls[c].context = None) =>
            /\ calls[c].outcome.kind = "raise"
            /\ calls[c].outcome.exc = "exceptions.BadStoreConfiguration"
            /\ calls[c].client = NoClient

\* C2: when the remote client reports volume-not-found for the location's
\* volume id, get_size with a non-None context fails with the store's NotFound
\* naming that volume, and returns no size.
C2_NotFoundRaised ==
    \A c \in DOMAIN calls :
        (Done(c) /\ calls[c].context # None
                 /\ calls[c].raised = "cinder_exception.NotFound") =>
            /\ calls[c].outcome.kind = "raise"
            /\ calls[c].outcome.exc = "exceptions.NotFound"
            /\ calls[c].outcome.detail = calls[c].volume_id

\* C3: every get_size call ends by returning an integer, raising NotFound or
\* raising BadStoreConfiguration; no other exception leaves it.
C3_OnlyClassifiedOutcomes ==
    \A c \in DOMAIN calls :
        Done(c) =>
            \/ calls[c].outcome.kind = "return"
            \/ /\ calls[c].outcome.kind = "raise"
               /\ calls[c].outcome.exc \in {"exceptions.NotFound",
                                            "exceptions.BadStoreConfiguration"}

Unclassified(exc) ==
    /\ exc # "none"
    /\ ~IsInstance(exc, "cinder_exception.NotFound")
    /\ ~IsInstance(exc, "ks_exceptions.EndpointNotFound")

\* C4: with a non-None context, a failure of building the client or of the
\* remote lookup that is neither the volume service's not-found nor the
\* identity service's endpoint-not-found makes get_size return 0, and the
\* failure is logged.
C4_UnclassifiedDegradesToZero ==
    \A c \in DOMAIN calls :
        (Done(c) /\ calls[c].context # None /\ Unclassified(calls[c].raised)) =>
            /\ calls[c].outcome = Return(<<0>>)
            /\ calls[c].log = <<"exception">>

\* A remote lookup that failed in transit, after the client was built, ended
\* the call with 0.
C4_Witness ==
    \E c \in DOMAIN calls :
        /\ Done(c)
        /\ calls[c].context # None
        /\ calls[c].raised = "ks_exceptions.ConnectionRefused"
        /\ calls[c].client # NoClient
        /\ calls[c].outcome = Return(<<0>>)

\* C5: with an endpoint template configured, the client get_size uses is bound
\* to the endpoint interpolated from the template and the context; without
\* one, the client discovers the endpoint from the service catalog with the
\* configured service type, service name, endpoint type and region.
C5_ClientBoundToEndpoint ==
    \A c \in DOMAIN calls :
        calls[c].client # NoClient =>
            LET kw == calls[c].client.kwargs
            IN IF Truthy(conf.cinder_endpoint_template)
               THEN /\ "endpoint_override" \in DOMAIN kw
                    /\ kw["endpoint_override"] =
                          Interpolate(conf.cinder_endpoint_template.pieces,
                                      to_dict(calls[c].context)).value
               ELSE /\ {"service_type", "service_name", "endpoint_type",
                        "region_name"} \subseteq DOMAIN kw
                    /\ kw["service_type"] = store.service_type
                    /\ kw["service_name"] = store.service_name
                    /\ kw["endpoint_type"] = store.endpoint_type
                    /\ kw["region_name"] = conf.os_region_name

\* The string read character by character: it begins with c,i,n,d,e,r,:,/,/.
HasCinderPrefix(u) ==
    /\ Len(u) >= 9
    /\ <<u[1], u[2], u[3], u[4], u[5], u[6]>> = <<"c", "i", "n", "d", "e", "r">>
    /\ <<u[7], u[8], u[9]>> = <<":", "/", "/">>

\* What follows the first nine characters.
AfterPrefix(u) == [i \in 1..(Len(u) - 9) |-> u[i + 9]]

\* C6: parse_uri succeeds only on 'cinder://' followed by a UUID-like rest; a
\* string without the prefix fails with BadStoreUri and the volume id is never
\* validated; the prefix followed by a rest that is not UUID-like fails with
\* BadStoreUri, "URI contains invalid volume ID".
C6_ParseRejects ==
    parsed.outcome # "none" =>
        /\ parsed.outcome = "ok" =>
              HasCinderPrefix(uri) /\ is_uuid_like(AfterPrefix(uri))
        /\ ~HasCinderPrefix(uri) =>
              /\ parsed.outcome = "BadStoreUri"
              /\ parsed.reason = ReasonPrefix
              /\ ~parsed.uuid_checked
        /\ (HasCinderPrefix(uri) /\ ~is_uuid_like(AfterPrefix(uri))) =>
              /\ parsed.outcome = "BadStoreUri"
              /\ parsed.reason = ReasonVolume

\* The prefix followed by something not UUID-like was parsed and rejected.
C6_Witness ==
    /\ parsed.outcome = "BadStoreUri"
    /\ parsed.reason = ReasonVolume
    /\ HasCinderPrefix(uri)
    /\ Len(uri) > 9
    /\ ~is_uuid_like(AfterPrefix(uri))

\* C7: for a location produced by a successful parse_uri, get_uri returns
\* exactly the parsed string, and parsing that again yields a location with
\* the same scheme and volume_id.
C7_RoundTrip ==
    parsed.outcome = "ok" =>
        /\ ppc \in {"rendered", "reparsed"} => rendered = uri
        /\ ppc = "reparsed" =>
              /\ parsed2.outcome = "ok"
              /\ sloc2.scheme = sloc.scheme
              /\ sloc2.volume_id = sloc.volume_id

\* The scenario URI was parsed, rendered and parsed again.
C7_Witness ==
    /\ ppc = "reparsed"
    /\ parsed.outcome = "ok"
    /\ uri = CinderPrefix \o ScenarioVolume
    /\ sloc.volume_id = ScenarioVolume
    /\ rendered = uri

Colons(info) == Cardinality({i \in 1..Len(info) : info[i] = ":"})

\* C8: constructing the Store with a catalog-info that has fewer or more than
\* two colons fails with BadStoreConfiguration and yields no adapter; with
\* exactly two, service_type, service_name and endpoint_type are the three
\* fields in order.
C8_MalformedCatalogInfo ==
    init_result # "none" =>
        IF Colons(conf.cinder_catalog_info) # 2
        THEN /\ init_result = "exceptions.BadStoreConfiguration"
             /\ store = NoStore
        ELSE /\ init_result = "ok"
             /\ store.service_type \o <<":">> \o store.service_name
                  \o <<":">> \o store.endpoint_type = conf.cinder_catalog_info

\* 1024^3 and 5 * 1024^3, written out.
GiB     == <<4, 2, 8, 1, 4, 7, 3, 7, 0, 1>>
FiveGiB == <<0, 2, 1, 9, 0, 7, 8, 6, 3, 5>>

RECURSIVE TimesGiB(_)
TimesGiB(n) == IF n = 0 THEN <<0>> ELSE BigAdd(TimesGiB(n - 1), GiB)

\* C9: with a non-None context, when the remote lookup succeeds and reports
\* size s in gigabytes, get_size returns s * 1024^3 (5 gives 5368709120).
C9_SizeInBytes ==
    \A c \in DOMAIN calls :
        (Done(c) /\ calls[c].context # None /\ calls[c].raised = "none") =>
            LET s == volumes[calls[c].volume_id].size
            IN /\ volumes[calls[c].volume_id].exists
               /\ calls[c].outcome.kind = "return"
               /\ calls[c].outcome.value = TimesGiB(s)
               /\ s = 5 => calls[c].outcome.value = FiveGiB

\* A volume of 5 GB was looked up and 5368709120 returned.
C9_Witness ==
    \E c \in DOMAIN calls :
        /\ Done(c)
        /\ calls[c].raised = "none"
        /\ calls[c].volume.size = 5
        /\ calls[c].outcome = Return(FiveGiB)

StoreAttributes == {"conf", "session", "service_type", "service_name", "endpoint_type"}

C10_ClientsPrivate ==
    /\ DOMAIN store = StoreAttributes
    /\ \A c \in DOMAIN calls :
          /\ calls[c].client # NoClient <=> calls[c].pc = "request"
                                            \/ (Done(c) /\ calls[c].raised \notin
                                                  {"exceptions.BadStoreConfiguration",
                                                   "KeyError"})
          /\ calls[c].client # NoClient =>
                /\ calls[c].client.kwargs.auth = get_auth_plugin(calls[c].context)
                /\ calls[c].client.kwargs.session = store.session
                /\ \A d \in DOMAIN calls \ {c} :
                      calls[d].client.id # calls[c].client.id

\* C10: under any interleaving of get_size calls on one Store, each call's
\* request goes through a client built in that call and bound to that call's
\* context's auth plugin; no client is kept on the Store or used by two calls;
\* the session and the Store's configuration are left as they were.
C10_NoSharedClient ==
    /\ []C10_ClientsPrivate
    /\ [][store' = store /\ conf' = conf]_vars

\* Two calls with different contexts both hold a client at the same time.
C10_Witness ==
    \E c, d \in DOMAIN calls :
        /\ c # d
        /\ calls[c].pc = "request"
        /\ calls[d].pc = "request"
        /\ calls[c].context = "ctxA"
        /\ calls[d].context = "ctxB"

=============================================================================
